---- MODULE Spec2Model ----
(***************************************************************************)
(* Model of the expense ledger of src/main.cpp (struct Book): the set of   *)
(* users, the sequence of expenses, the balance computation, the greedy    *)
(* settlement and the text persistence.                                    *)
(*                                                                         *)
(* Amounts.  The program keeps amounts in doubles.  The model keeps a      *)
(* double as a record: nan tells whether it is NaN, and units is, for a    *)
(* number, its count of ledger units of 1/12 of a millionth of a currency  *)
(* unit, so that EPS (1e-6) is 12 units and 0.01 is 120000 units.  NaN,    *)
(* which stod reads from "nan", is thus no count of units.  Sums and       *)
(* differences are exact; a quotient is rounded to the nearest unit, and   *)
(* the amounts fed to the model are chosen so that the quotients the       *)
(* program forms are whole numbers of units.  The rounding of the doubles  *)
(* (about 1e-16 relative) is far below one unit and is not represented in  *)
(* the values; it shows where the program compares two values that are     *)
(* equal in ledger units: there the comparison can go either way           *)
(* (Exceeds).                                                              *)
(***************************************************************************)
EXTENDS Integers, Sequences, FiniteSets, TLC

VARIABLES users, expenses, file, last

vars == <<users, expenses, file, last>>

----------------------------------------------------------------------------
(* Bounds of the exploration *)

MaxExpenses == 2

Names == {"A", "B", "C"}

(* std::map iterates its keys in ascending order *)
NameOrder == <<"A", "B", "C">>

----------------------------------------------------------------------------
(* Program constants, in ledger units *)

EPS == 12

TOL == 120000

CLAMP == 1

Cent == 10000 * EPS

(* A double that is a number of v ledger units *)
Num(v) == [nan |-> FALSE, units |-> v]

(* The double that is no number *)
NaN == [nan |-> TRUE, units |-> 0]

Amounts == {Num(0), Num(3 * EPS), Num(10 * Cent)}

(* A token of add-expense exact: "name:share", a token without a colon, or *)
(* a token whose text after the colon is no number.                        *)
Tok(n, k, s) == [name |-> n, kind |-> k, share |-> s]

(* The participant lists offered to add-expense equal *)
ParticipantLists == {<<>>, <<"A", "B", "C">>}

(* The token lists offered to add-expense exact: none, a token without a   *)
(* colon, one without a number, a share of 0.104, shares of 0.05 and 0.04  *)
(* for one participant, a single share of 0.05, and a share of nan.        *)
TokenLists ==
    {<<>>,
     <<Tok("A", "nocolon", Num(0))>>,
     <<Tok("B", "num", Num(5 * Cent)), Tok("B", "nonnum", Num(0))>>,
     <<Tok("B", "num", Num(10 * Cent + 4000 * EPS))>>,
     <<Tok("B", "num", Num(5 * Cent)), Tok("B", "num", Num(4 * Cent))>>,
     <<Tok("C", "num", Num(5 * Cent))>>,
     <<Tok("B", "num", NaN)>>}

----------------------------------------------------------------------------
(* Arithmetic helpers *)

IsNaN(x) == x.nan

(* x + y and x - y on doubles *)
Plus(x, y) == IF IsNaN(x) \/ IsNaN(y) THEN NaN ELSE Num(x.units + y.units)

Minus(x, y) == IF IsNaN(x) \/ IsNaN(y) THEN NaN ELSE Num(x.units - y.units)

(* -x *)
Neg(x) == IF IsNaN(x) THEN NaN ELSE Num(-x.units)

(* fabs *)
Abs(x) == IF IsNaN(x) THEN NaN ELSE IF x.units < 0 THEN Num(-x.units) ELSE x

(* std::min(a, b): b when b < a, and a otherwise *)
Min(a, b) == IF ~IsNaN(a) /\ ~IsNaN(b) /\ b.units < a.units THEN b ELSE a

(* x > y on doubles: the verdicts the comparison can give.  With a NaN it  *)
(* is false.  Two values equal in ledger units differ by their rounding    *)
(* alone, which the units do not tell: both verdicts are possible.         *)
Exceeds(x, y) ==
    IF IsNaN(x) \/ IsNaN(y) THEN {FALSE}
    ELSE IF x.units > y.units THEN {TRUE}
    ELSE IF x.units < y.units THEN {FALSE}
    ELSE BOOLEAN

(* a / k for k > 0, rounded to the nearest ledger unit *)
Div(a, k) ==
    IF IsNaN(a) THEN NaN
    ELSE LET q == a.units \div k
             r == a.units % k
         IN  Num(IF 2 * r >= k THEN q + 1 ELSE q)

RECURSIVE SumOver(_, _)
SumOver(f, S) ==
    IF S = {} THEN Num(0)
    ELSE LET x == CHOOSE y \in S : TRUE IN Plus(f[x], SumOver(f, S \ {x}))

Sum(f) == SumOver(f, DOMAIN f)

EmptyMap == [x \in {} |-> Num(0)]

(* m[k] += v on a std::map<string,double>: a missing key starts at 0.0 *)
MapAdd(m, k, v) ==
    IF k \in DOMAIN m THEN [m EXCEPT ![k] = Plus(@, v)] ELSE m @@ (k :> v)

(* m[k] = v *)
MapSet(m, k, v) ==
    IF k \in DOMAIN m THEN [m EXCEPT ![k] = v] ELSE m @@ (k :> v)

(* m[k] -= v; every key debited is in the map (computeNet credits or      *)
(* creates it first) or starts at 0.0                                      *)
MapSub(m, k, v) ==
    IF k \in DOMAIN m THEN [m EXCEPT ![k] = Minus(@, v)]
    ELSE m @@ (k :> Minus(Num(0), v))

MapRemove(m, k) == [x \in DOMAIN m \ {k} |-> m[x]]

----------------------------------------------------------------------------
(* Book::hasUser *)

hasUser(us, u) == u \in us

Expense(payer, amount, shares) ==
    [payer |-> payer, amount |-> amount, shares |-> shares]

Fail(err, exps) == [ret |-> FALSE, err |-> err, expenses |-> exps]

Ok(exps) == [ret |-> TRUE, err |-> "", expenses |-> exps]

(* Book::addExpenseEqual, the loop e.shares[participants[i]] += share *)
RECURSIVE EqualShares(_, _, _)
EqualShares(participants, share, i) ==
    IF i = 0 THEN EmptyMap
    ELSE MapAdd(EqualShares(participants, share, i - 1), participants[i], share)

(* A partial commit: the expense is pushed before the participants are checked *)
EqualOutcomeEarlyPush(us, exps, payer, amount, participants) ==
    IF ~hasUser(us, payer) THEN Fail("Unknown payer", exps)
    ELSE IF participants = <<>> THEN Fail("No participants", exps)
    ELSE LET share == Div(amount, Len(participants))
             e == Expense(payer, amount,
                          EqualShares(participants, share, Len(participants)))
         IN  IF \E i \in 1..Len(participants) : ~hasUser(us, participants[i])
             THEN Fail("Unknown participant", Append(exps, e))
             ELSE Ok(Append(exps, e))

(* Book::addExpenseEqual *)
EqualOutcome(us, exps, payer, amount, participants) ==
    IF ~hasUser(us, payer) THEN Fail("Unknown payer", exps)
    ELSE IF participants = <<>> THEN Fail("No participants", exps)
    ELSE IF \E i \in 1..Len(participants) : ~hasUser(us, participants[i])
    THEN Fail("Unknown participant", exps)
    ELSE LET share == Div(amount, Len(participants))
             e == Expense(payer, amount,
                          EqualShares(participants, share, Len(participants)))
         IN  Ok(Append(exps, e))

(* Book::addExpenseExact, the token loop from token i on: the first token  *)
(* that fails decides the error; "Exception" is stod throwing.             *)
RECURSIVE ExactScan(_, _, _, _, _)
ExactScan(us, tokens, i, shares, sumShares) ==
    IF i > Len(tokens) THEN [err |-> "", shares |-> shares, sumShares |-> sumShares]
    ELSE LET t == tokens[i]
         IN  IF t.kind = "nocolon"
             THEN [err |-> "Bad token", shares |-> shares, sumShares |-> sumShares]
             ELSE IF t.kind = "nonnum"
             THEN [err |-> "Exception", shares |-> shares, sumShares |-> sumShares]
             ELSE IF ~hasUser(us, t.name)
             THEN [err |-> "Unknown participant", shares |-> shares,
                   sumShares |-> sumShares]
             ELSE ExactScan(us, tokens, i + 1, MapAdd(shares, t.name, t.share),
                            Plus(sumShares, t.share))

(* The comparison without fabs *)
ShareMismatchSigned(sumShares, amount) == Exceeds(Minus(sumShares, amount), Num(TOL))

(* fabs(sumShares - amount) > 0.01: the verdicts it can give *)
ShareMismatch(sumShares, amount) == Exceeds(Abs(Minus(sumShares, amount)), Num(TOL))

(* Book::addExpenseExact: the outcomes it can have *)
ExactOutcome(us, exps, payer, amount, tokens) ==
    IF ~hasUser(us, payer) THEN {Fail("Unknown payer", exps)}
    ELSE IF tokens = <<>> THEN {Fail("No shares provided", exps)}
    ELSE LET sc == ExactScan(us, tokens, 1, EmptyMap, Num(0))
         IN  IF sc.err # "" THEN {Fail(sc.err, exps)}
             ELSE {IF mismatch
                   THEN Fail("Share sum != amount", exps)
                   ELSE Ok(Append(exps, Expense(payer, amount, sc.shares)))
                   : mismatch \in ShareMismatch(sc.sumShares, amount)}

----------------------------------------------------------------------------
(* Book::computeNet *)

RECURSIVE DebitShares(_, _, _)
DebitShares(net, shares, keys) ==
    IF keys = {} THEN net
    ELSE LET k == CHOOSE x \in keys : TRUE
         IN  DebitShares(MapSub(net, k, shares[k]), shares, keys \ {k})

RECURSIVE NetFold(_, _, _)
NetFold(net, exps, i) ==
    IF i > Len(exps) THEN net
    ELSE LET e == exps[i]
             credited == MapAdd(net, e.payer, e.amount)
         IN  NetFold(DebitShares(credited, e.shares, DOMAIN e.shares), exps, i + 1)

ClampNoise(net) ==
    [u \in DOMAIN net |->
        IF ~IsNaN(net[u]) /\ Abs(net[u]).units < CLAMP THEN Num(0) ELSE net[u]]

computeNet(us, exps) == ClampNoise(NetFold([u \in us |-> Num(0)], exps, 1))

----------------------------------------------------------------------------
(* Book::settle *)

(* The vector cred that the partition can build: amt > EPS *)
Creditors(net) ==
    {S \in SUBSET {u \in DOMAIN net : TRUE \in Exceeds(net[u], Num(EPS))} :
        \A u \in DOMAIN net : Exceeds(net[u], Num(EPS)) = {TRUE} => u \in S}

(* The vector debt that the partition can build: amt < -EPS *)
Debtors(net) ==
    {S \in SUBSET {u \in DOMAIN net : TRUE \in Exceeds(Num(-EPS), net[u])} :
        \A u \in DOMAIN net : Exceeds(Num(-EPS), net[u]) = {TRUE} => u \in S}

(* priority_queue::top: an entry of greatest priority; which one among     *)
(* equals is left to the heap, so every one of them is a possible top.     *)
TopCred(C) == {u \in DOMAIN C : \A v \in DOMAIN C : C[v].units <= C[u].units}

TopDebt(D) == {u \in DOMAIN D : \A v \in DOMAIN D : D[v].units >= D[u].units}

(* Only half of the smaller amount is paid *)
PayHalf(camt, damt) == Div(Min(camt, Neg(damt)), 2)

(* std::min(c.amt, -d.amt) *)
Pay(camt, damt) == Min(camt, Neg(damt))

(* The names in the wrong order *)
TxnSwapped(d, c, pay) == [from |-> c, to |-> d, amount |-> pay]

(* make_tuple(d.name, c.name, pay) *)
Txn(d, c, pay) == [from |-> d, to |-> c, amount |-> pay]

(* if (pay > EPS) txns.push_back(...): the lists that can result *)
Emit(txns, d, c, pay) ==
    {IF emitted THEN Append(txns, Txn(d, c, pay)) ELSE txns
       : emitted \in Exceeds(pay, Num(EPS))}

(* if (c.amt > EPS) C.push(c): the queues that can result *)
KeepCreditor(C, c, camt) ==
    {IF kept THEN [C EXCEPT ![c] = camt] ELSE MapRemove(C, c)
       : kept \in Exceeds(camt, Num(EPS))}

(* if (d.amt < -EPS) D.push(d): the queues that can result *)
KeepDebtor(D, d, damt) ==
    {IF kept THEN [D EXCEPT ![d] = damt] ELSE MapRemove(D, d)
       : kept \in Exceeds(Num(-EPS), damt)}

(* The matching loop: the set of transaction lists it can return *)
RECURSIVE SettleLoop(_, _, _)
SettleLoop(C, D, txns) ==
    IF DOMAIN C = {} \/ DOMAIN D = {} THEN {txns}
    ELSE UNION {
           LET pay == Pay(C[c], D[d])
           IN  UNION {SettleLoop(C2, D2, out) :
                        C2 \in KeepCreditor(C, c, Minus(C[c], pay)),
                        D2 \in KeepDebtor(D, d, Plus(D[d], pay)),
                        out \in Emit(txns, d, c, pay)}
           : c \in TopCred(C), d \in TopDebt(D)}

(* Book::settle: the results it can have, with the vectors cred and debt   *)
(* of the partition                                                        *)
settle(us, exps) ==
    LET net == computeNet(us, exps)
    IN  UNION {{[txns |-> t, cred |-> cred, debt |-> debt] :
                  t \in SettleLoop([u \in cred |-> net[u]],
                                   [u \in debt |-> net[u]], <<>>)}
               : cred \in Creditors(net), debt \in Debtors(net)}

----------------------------------------------------------------------------
(* Persistence: the file as the parser sees it.  Amounts in a file are     *)
(* text with two decimals, held as a whole number of hundredths.           *)

NoFile ==
    [exists |-> FALSE, usersTag |-> FALSE, users |-> {}, expTag |-> FALSE,
     exps |-> <<>>]

ShareLine(ok, name, hundredths) == [ok |-> ok, name |-> name, amount |-> hundredths]

ExpenseBlock(hdr, payer, hundredths, sharesTag, lines) ==
    [hdr |-> hdr, payer |-> payer, amount |-> hundredths, sharesTag |-> sharesTag,
     shares |-> lines]

TextFile(usersTag, us, expTag, blocks) ==
    [exists |-> TRUE, usersTag |-> usersTag, users |-> us, expTag |-> expTag,
     exps |-> blocks]

(* operator<< with ios::fixed and setprecision(2), of a number: the        *)
(* nearest hundredth.  A value halfway between two hundredths goes the way *)
(* its binary expansion lies, which the ledger units do not tell: both are *)
(* possible.                                                               *)
Fmt2(x) ==
    LET q == x.units \div Cent
        r == x.units % Cent
    IN  IF 2 * r < Cent THEN {q}
        ELSE IF 2 * r > Cent THEN {q + 1}
        ELSE {q, q + 1}

(* operator>> into a double, of a text with two decimals *)
ParseAmount(hundredths) == Num(hundredths * Cent)

(* Book::save, one share line; a NaN is written as "nan", which           *)
(* operator>> does not read as a double                                    *)
SaveShare(n, x) ==
    IF IsNaN(x) THEN {ShareLine(FALSE, n, 0)}
    ELSE {ShareLine(TRUE, n, c) : c \in Fmt2(x)}

(* Book::save, the share lines of one expense, keys NameOrder[1..i] *)
RECURSIVE SaveShares(_, _)
SaveShares(shares, i) ==
    IF i = 0 THEN {<<>>}
    ELSE LET n == NameOrder[i]
         IN  IF n \in DOMAIN shares
             THEN {Append(p, l) :
                     p \in SaveShares(shares, i - 1), l \in SaveShare(n, shares[n])}
             ELSE SaveShares(shares, i - 1)

(* Book::save, the header line of one expense and its SHARES line; an     *)
(* amount of NaN is written as "nan" and makes a header that does not load *)
SaveHeader(e, lines) ==
    IF IsNaN(e.amount) THEN {ExpenseBlock(FALSE, e.payer, 0, TRUE, lines)}
    ELSE {ExpenseBlock(TRUE, e.payer, c, TRUE, lines) : c \in Fmt2(e.amount)}

(* Book::save, the blocks of expenses 1..i *)
RECURSIVE SaveExpenses(_, _)
SaveExpenses(exps, i) ==
    IF i = 0 THEN {<<>>}
    ELSE {Append(p, b) :
            p \in SaveExpenses(exps, i - 1),
            b \in UNION {SaveHeader(exps[i], l) :
                           l \in SaveShares(exps[i].shares, Len(NameOrder))}}

(* Book::save: the files it can write *)
save(us, exps) ==
    {TextFile(TRUE, us, TRUE, blocks) : blocks \in SaveExpenses(exps, Len(exps))}

(* Book::load, the share lines of one expense from line i on *)
RECURSIVE LoadShares(_, _, _)
LoadShares(lines, i, shares) ==
    IF i > Len(lines) THEN [ok |-> TRUE, shares |-> shares]
    ELSE IF ~lines[i].ok THEN [ok |-> FALSE, shares |-> shares]
    ELSE LoadShares(lines, i + 1,
                    MapSet(shares, lines[i].name, ParseAmount(lines[i].amount)))

(* Book::load, the expense blocks from block k on *)
RECURSIVE LoadExpenses(_, _, _)
LoadExpenses(blocks, k, exps) ==
    IF k > Len(blocks) THEN Ok(exps)
    ELSE LET b == blocks[k]
             sh == LoadShares(b.shares, 1, EmptyMap)
         IN  IF ~b.hdr THEN Fail("Corrupt expense header", exps)
             ELSE IF ~b.sharesTag THEN Fail("Corrupt shares tag", exps)
             ELSE IF ~sh.ok THEN Fail("Corrupt share entry", exps)
             ELSE LoadExpenses(blocks, k + 1,
                               Append(exps, Expense(b.payer, ParseAmount(b.amount),
                                                    sh.shares)))

Loaded(r, us) == [ret |-> r.ret, err |-> r.err, users |-> us, expenses |-> r.expenses]

(* Book::load *)
load(f, us, exps) ==
    IF ~f.exists THEN Loaded(Fail("Cannot open file for reading", exps), us)
    ELSE IF ~f.usersTag THEN Loaded(Fail("Corrupt file (USERS)", <<>>), {})
    ELSE IF ~f.expTag THEN Loaded(Fail("Corrupt file (EXPENSES)", <<>>), f.users)
    ELSE Loaded(LoadExpenses(f.exps, 1, <<>>), f.users)

(* Files written by other hands: no USERS tag; a user and no EXPENSES tag; *)
(* an expense and then a bad header; a bad share line; a well-formed file  *)
(* whose expense names users the USERS section does not list.              *)
GoodBlock == ExpenseBlock(TRUE, "A", 10, TRUE, <<ShareLine(TRUE, "A", 10)>>)

ForeignFiles ==
    {TextFile(FALSE, {}, FALSE, <<>>),
     TextFile(TRUE, {"A"}, FALSE, <<>>),
     TextFile(TRUE, {"A"}, TRUE, <<GoodBlock, ExpenseBlock(FALSE, "A", 0, FALSE, <<>>)>>),
     TextFile(TRUE, {"A"}, TRUE,
              <<ExpenseBlock(TRUE, "A", 10, TRUE, <<ShareLine(FALSE, "A", 0)>>)>>),
     TextFile(TRUE, {"A"}, TRUE,
              <<ExpenseBlock(TRUE, "B", 10, TRUE, <<ShareLine(TRUE, "C", 10)>>)>>)}

----------------------------------------------------------------------------
(* The session: one command of main's loop per step.  last is what the    *)
(* command returned.  An exception nobody catches ends the program.  The   *)
(* exploration edits the ledger until a file is written, and saves and     *)
(* loads from then on (Editing); MaxExpenses caps the ledger.              *)

Editing == file = NoFile

Running == last.op # "terminated"

Init ==
    /\ users = {}
    /\ expenses = <<>>
    /\ file = NoFile
    /\ last = [op |-> "start"]

(* add-user <name> *)
AddUser ==
    \E u \in Names :
        /\ Running
        /\ Editing
        /\ users' = users \cup {u}
        /\ last' = [op |-> "add-user"]
        /\ UNCHANGED <<expenses, file>>

Record(op, r) ==
    IF r.err = "Exception" THEN [op |-> "terminated"]
    ELSE [op |-> op, ret |-> r.ret, err |-> r.err]

(* add-expense equal <payer> <amount> <p1> ... *)
AddExpenseEqual ==
    \E payer \in Names, amount \in Amounts, participants \in ParticipantLists :
        LET r == EqualOutcome(users, expenses, payer, amount, participants)
        IN  /\ Running
            /\ Editing
            /\ Len(r.expenses) <= MaxExpenses
            /\ expenses' = r.expenses
            /\ last' = Record("equal", r)
            /\ UNCHANGED <<users, file>>

(* add-expense exact <payer> <amount> <name1:share1> ... *)
AddExpenseExact ==
    \E payer \in Names, amount \in Amounts, tokens \in TokenLists :
        \E r \in ExactOutcome(users, expenses, payer, amount, tokens) :
            /\ Running
            /\ Editing
            /\ Len(r.expenses) <= MaxExpenses
            /\ expenses' = r.expenses
            /\ last' = Record("exact", r)
            /\ UNCHANGED <<users, file>>

(* balances *)
Balances ==
    /\ Running
    /\ last' = [op |-> "balances", net |-> computeNet(users, expenses)]
    /\ UNCHANGED <<users, expenses, file>>

(* settle *)
Settle ==
    \E r \in settle(users, expenses) :
        /\ Running
        /\ last' = [op |-> "settle", txns |-> r.txns, cred |-> r.cred, debt |-> r.debt]
        /\ UNCHANGED <<users, expenses, file>>

(* add-expense exact, keeping the arguments of the call *)
AddExpenseExactCall ==
    \E payer \in Names, amount \in Amounts, tokens \in TokenLists :
        \E r \in ExactOutcome(users, expenses, payer, amount, tokens) :
            /\ Running
            /\ Editing
            /\ Len(r.expenses) <= MaxExpenses
            /\ expenses' = r.expenses
            /\ last' = Record("exact", r)
                         @@ [payer |-> payer, amount |-> amount, tokens |-> tokens]
            /\ UNCHANGED <<users, file>>

(* save <file> *)
Save ==
    \E writable \in BOOLEAN :
        /\ Running
        /\ IF writable
           THEN /\ file' \in save(users, expenses)
                /\ last' = [op |-> "save", ret |-> TRUE, err |-> ""]
           ELSE /\ file' = file
                /\ last' = [op |-> "save", ret |-> FALSE,
                            err |-> "Cannot open file for writing"]
        /\ UNCHANGED <<users, expenses>>

(* load <file> *)
Load ==
    LET r == load(file, users, expenses)
    IN  /\ Running
        /\ users' = r.users
        /\ expenses' = r.expenses
        /\ last' = [op |-> "load", ret |-> r.ret, err |-> r.err]
        /\ UNCHANGED file

(* Another program writes the file *)
WriteFile ==
    \E f \in ForeignFiles :
        /\ Running
        /\ file' = f
        /\ last' = [op |-> "write-file"]
        /\ UNCHANGED <<users, expenses>>

Next ==
    \/ AddUser
    \/ AddExpenseEqual
    \/ AddExpenseExact
    \/ Balances
    \/ Settle

Spec == Init /\ [][Next]_vars

NextExact ==
    \/ AddUser
    \/ AddExpenseExactCall

SpecExact == Init /\ [][NextExact]_vars

NextIO ==
    \/ AddUser
    \/ AddExpenseEqual
    \/ AddExpenseExact
    \/ Save
    \/ Load
    \/ WriteFile

SpecIO == Init /\ [][NextIO]_vars

----------------------------------------------------------------------------
(* Properties *)

Net == computeNet(users, expenses)

(* The creditors and debtors that the partition of the last settle found *)
NumCreditors == Cardinality(last.cred)

NumDebtors == Cardinality(last.debt)

(* |x| <= bound, which no NaN satisfies *)
Within(x, bound) == ~IsNaN(x) /\ Abs(x).units <= bound

RECURSIVE PaidBy(_, _, _)
PaidBy(txns, u, i) ==
    IF i = 0 THEN 0
    ELSE PaidBy(txns, u, i - 1) + (IF txns[i].from = u THEN txns[i].amount.units ELSE 0)

RECURSIVE ReceivedBy(_, _, _)
ReceivedBy(txns, u, i) ==
    IF i = 0 THEN 0
    ELSE ReceivedBy(txns, u, i - 1) + (IF txns[i].to = u THEN txns[i].amount.units ELSE 0)

(* The balance of u once the transactions are carried out *)
Settled(net, txns, u) ==
    Plus(net[u], Num(PaidBy(txns, u, Len(txns)) - ReceivedBy(txns, u, Len(txns))))

RECURSIVE TokenSum(_, _)
TokenSum(tokens, i) ==
    IF i = 0 THEN Num(0) ELSE Plus(TokenSum(tokens, i - 1), tokens[i].share)

(* |sum of the token shares - amount| of the last addExpenseExact *)
ShareGap == Abs(Minus(TokenSum(last.tokens, Len(last.tokens)), last.amount))

AddedExpense == last.op \in {"equal", "exact"}

(* C1: the balances that computeNet returns sum to zero within 1e-6 *)
C1_Conservation ==
    last.op = "balances" => Within(Sum(last.net), EPS)

(* C2: carrying out the transactions of settle() on the balances of        *)
(* computeNet() leaves every balance within epsilon of zero                *)
C2_SettleZeroes ==
    last.op = "settle" =>
        \A u \in DOMAIN Net : Within(Settled(Net, last.txns, u), EPS)

(* C3, as claimed: settle() returns at most creditors + debtors - 1        *)
(* transactions                                                            *)
C3_TxnBound ==
    last.op = "settle" => Len(last.txns) <= NumCreditors + NumDebtors - 1

(* C3, amended: settle() returns no transaction when there is neither a    *)
(* creditor nor a debtor, and at most creditors + debtors - 1 otherwise    *)
C3_TxnBoundAmended ==
    last.op = "settle" =>
        IF NumCreditors + NumDebtors = 0
        THEN last.txns = <<>>
        ELSE Len(last.txns) <= NumCreditors + NumDebtors - 1

C3_Witness ==
    /\ last.op = "settle"
    /\ NumCreditors + NumDebtors = 3
    /\ Len(last.txns) = 2

(* C4: a rejected addExpenseEqual or addExpenseExact leaves users and      *)
(* expenses as they were; an accepted one appends exactly one expense and  *)
(* leaves the users as they were                                           *)
C4_ValidateThenCommit ==
    [][(last'.op \in {"equal", "exact"}) =>
         /\ users' = users
         /\ IF last'.ret
            THEN /\ Len(expenses') = Len(expenses) + 1
                 /\ SubSeq(expenses', 1, Len(expenses)) = expenses
            ELSE expenses' = expenses]_vars

C4_Witness ==
    /\ AddedExpense
    /\ ~last.ret
    /\ last.err \in {"Unknown participant", "Share sum != amount"}
    /\ expenses # <<>>

(* C5, as claimed: addExpenseExact fails with ShareMismatch exactly when   *)
(* the token shares differ from the amount by more than 0.01, whatever the *)
(* payer, the amount and the tokens                                        *)
C5_MismatchIff ==
    last.op = "exact" =>
        ((last.err = "Share sum != amount")
            <=> (~IsNaN(ShareGap) /\ ShareGap.units > TOL))

C5_Validated ==
    /\ last.op = "exact"
    /\ last.payer \in users
    /\ last.tokens # <<>>
    /\ \A i \in 1..Len(last.tokens) :
          last.tokens[i].kind = "num" /\ last.tokens[i].name \in users

(* C5, amended: when the payer is known, the token list is not empty and   *)
(* every token is well-formed and names a known user, addExpenseExact      *)
(* fails exactly when fabs(sum of the token shares - amount) > 0.01 as the *)
(* doubles give it: it fails when the gap is above 0.01, it succeeds when  *)
(* the gap is below 0.01 or is NaN, a gap of 0.01 in decimal goes either   *)
(* way; and the failure is ShareMismatch                                   *)
C5_MismatchIffValidated ==
    C5_Validated =>
        /\ (~last.ret) \in Exceeds(ShareGap, Num(TOL))
        /\ ~last.ret <=> last.err = "Share sum != amount"

C5_Witness ==
    /\ C5_Validated
    /\ last.err = "Share sum != amount"
    /\ ~IsNaN(ShareGap)
    /\ TokenSum(last.tokens, Len(last.tokens)).units < last.amount.units - TOL

(* C6: the payer of every stored expense and every key of its shares is a  *)
(* known user, so the keys of computeNet() are the known users             *)
C6_ReferentialIntegrity ==
    /\ \A i \in 1..Len(expenses) :
          expenses[i].payer \in users /\ DOMAIN expenses[i].shares \subseteq users
    /\ DOMAIN Net = users

(* C7: after load returns false the ledger is unchanged or empty *)
C7_FailedLoadLeavesNothing ==
    [][(last'.op = "load" /\ ~last'.ret) =>
         \/ users' = users /\ expenses' = expenses
         \/ users' = {} /\ expenses' = <<>>]_vars

(* C8: loading a file that save wrote for the ledger yields a ledger with  *)
(* the same computeNet() output                                            *)
C8_RoundTrip ==
    [][(last'.op = "load" /\ file \in save(users, expenses)) =>
         /\ last'.ret
         /\ computeNet(users', expenses') = computeNet(users, expenses)]_vars

(* C9: every stored expense has a positive amount and positive shares *)
C9_PositiveAmounts ==
    \A i \in 1..Len(expenses) :
        /\ ~IsNaN(expenses[i].amount) /\ expenses[i].amount.units > 0
        /\ \A k \in DOMAIN expenses[i].shares :
              ~IsNaN(expenses[i].shares[k]) /\ expenses[i].shares[k].units > 0

(* C10: every transaction of settle() has an amount above epsilon, goes    *)
(* from a debtor to a creditor, who differ, and nobody pays more than the  *)
(* debt or receives more than the credit.  "Above epsilon" is as the       *)
(* doubles have it: in ledger units, epsilon or more.                      *)
C10_WellFormedTxns ==
    last.op = "settle" =>
        /\ \A i \in 1..Len(last.txns) :
              LET t == last.txns[i]
              IN  /\ TRUE \in Exceeds(t.amount, Num(EPS))
                  /\ t.from \in last.debt /\ TRUE \in Exceeds(Num(-EPS), Net[t.from])
                  /\ t.to \in last.cred /\ TRUE \in Exceeds(Net[t.to], Num(EPS))
                  /\ t.from # t.to
        /\ \A u \in DOMAIN Net :
              LET paid == PaidBy(last.txns, u, Len(last.txns))
                  received == ReceivedBy(last.txns, u, Len(last.txns))
              IN  IF IsNaN(Net[u]) THEN paid = 0 /\ received = 0
                  ELSE /\ paid <= (IF Net[u].units < 0 THEN -Net[u].units ELSE 0)
                       /\ received <= (IF Net[u].units > 0 THEN Net[u].units ELSE 0)

C10_Witness ==
    /\ last.op = "settle"
    /\ Len(last.txns) >= 1
    /\ ~IsNaN(Sum(Net))
    /\ Sum(Net).units # 0

====
